---- MODULE Spec2Model ----
(***************************************************************************)
(* A model of fluxture's peer connection (fluxture/blockchain.py: Node)    *)
(* and of the chain registry (BLOCKCHAINS / Blockchain.__init_subclass__), *)
(* and of the binary codec (blockscraper/types.py: SizedInteger, Struct).  *)
(*                                                                         *)
(* Node's coroutines run as tasks on one asyncio event loop.  A task runs  *)
(* atomically from one await to the next, so every action below is the     *)
(* code between two suspension points of one coroutine:                    *)
(*   line 71  await asyncio.open_connection(address, port)                 *)
(*   line 75  await asyncio.open_connection(address.ipv4_mapped, port)     *)
(*   line 86  await self._writer.wait_closed()                             *)
(*   line 105 await writer.drain()                                         *)
(*   line 54  await self._stop.wait()                                      *)
(***************************************************************************)
EXTENDS Integers, Sequences, FiniteSets, TLC

\* ------------------------------------------------------------------ bounds
NumTasks == 2
MaxOpens == 2
MaxCloses == 2
MaxEntries == 2
MaxDepth == 1
MaxNest == 8
MaxClasses == 3

Tasks == 1..NumTasks

\* The value of an unset Optional stream handle (self._reader = None).
NoStream == 0

\* Names for the streams that can exist at once: at most one per open attempt.
Streams == 1..(MaxOpens + NumTasks + 1)

\* What one call of asyncio.open_connection can do: return a (reader, writer)
\* pair, raise ConnectionRefusedError, or raise any other error.
Outcomes == {"ok", "refused", "error"}

\* The addresses a Node is constructed with: one that embeds an IPv4 address
\* (ipv4_mapped is not None) and one that does not.
MappedAddress == "::ffff:192.0.2.1"
PlainAddress == "2001:db8::1"

\* The ports a Node is constructed with.
Ports == {8333}

VARIABLES
    reader,     \* Node._reader: NoStream or the stream it refers to
    writer,     \* Node._writer
    entries,    \* Node._entries
    stop,       \* Node._stop: "None", or the Event's flag: "unset" / "set"
    waiters,    \* tasks with an unresolved future in Node._stop's waiter list
    mapped,     \* Node.address.ipv4_mapped is not None
    address,    \* Node.address
    port,       \* Node.port
    live,       \* streams open_connection returned and nobody has close()d
    opens,      \* calls of asyncio.open_connection so far
    closes,     \* calls of StreamWriter.close so far
    pc,         \* per task: "idle" or the await it is suspended at
    op,         \* per task: the Node method it called ("none" when idle)
    ret,        \* how the last step left its call: "ok": it returned,
                \* "raised": it raised, "none": it is suspended
    depth,      \* per task: scopes it has entered and not begun to exit
    term,       \* history: terminate() "no": never called, "fresh": called and
                \* no connect has succeeded since, "stale": one has
    explicit,   \* history (kept by SeqNext): connect() returned and no
                \* close() has returned since
    exits,      \* history: the exits begun by the task of the nesting scenario
    BLOCKCHAINS,\* the registry, a dict kept as its set of <<key, value>> items
    classes,    \* the Blockchain subclasses defined so far, in order
    call,       \* what the codec is exercised on, "none" while it is not
    outcome     \* what its calls have returned or raised so far

nodeVars == <<reader, writer, entries, stop, waiters, mapped, address, port, live,
              opens, closes>>
taskVars == <<pc, op, ret, depth>>
histVars == <<term, explicit, exits>>
regVars == <<BLOCKCHAINS, classes>>
codecVars == <<call, outcome>>
vars == <<nodeVars, taskVars, histVars, regVars, codecVars>>

\* ---------------------------------------------------------- Node.__init__
NodeInit ==
    /\ reader = NoStream
    /\ writer = NoStream
    /\ entries = 0
    /\ stop = "None"
    /\ waiters = {}
    /\ mapped \in BOOLEAN
    /\ address = (IF mapped THEN MappedAddress ELSE PlainAddress)
    /\ port \in Ports
    /\ live = {}
    /\ opens = 0
    /\ closes = 0
    /\ pc = [t \in Tasks |-> "idle"]
    /\ op = [t \in Tasks |-> "none"]
    /\ ret = "none"
    /\ depth = [t \in Tasks |-> 0]
    /\ term = "no"
    /\ explicit = FALSE
    /\ exits = 0

\* The Node, as the object its attributes make up.
Self ==
    [address |-> address, port |-> port, reader |-> reader, writer |-> writer,
     entries |-> entries, stop |-> stop]

\* Node(a, p): a Node as __init__ leaves it (lines 33-42).
NodeNew(a, p) ==
    [address |-> a, port |-> p, reader |-> NoStream, writer |-> NoStream,
     entries |-> 0, stop |-> "None"]

\* Equality of the objects themselves: every attribute counts.
NodeEq_AllAttributes(a, b) == a = b

\* Node.__eq__ (lines 110-111); both operands are Nodes.
NodeEq(a, b) == b.address = a.address /\ b.port = a.port

\* Node.__hash__ (lines 107-108): the hash of the pair, kept as the pair.
NodeHash(a) == <<a.address, a.port>>

\* Node.is_running
is_running == reader # NoStream /\ stop # "None" /\ stop # "set"

\* The stream the stored handle refers to is open.
Connected == writer # NoStream /\ writer \in live

\* A name for the stream a successful open_connection returns.
FreshStream == CHOOSE s \in Streams :
    /\ s \notin live \cup {reader, writer}
    /\ \A s2 \in Streams : s2 \notin live \cup {reader, writer} => s <= s2

\* The call of task t ends: it returns (r = "ok") or raises (r = "raised").
Return(t, r) ==
    /\ pc' = [pc EXCEPT ![t] = "idle"]
    /\ op' = [op EXCEPT ![t] = "none"]
    /\ ret' = r

\* Task t, inside method m, is suspended at the await of line `at`.
Suspend(t, m, at) ==
    /\ pc' = [pc EXCEPT ![t] = at]
    /\ op' = [op EXCEPT ![t] = m]
    /\ ret' = "none"


\* ------------------------------------------------------------ Node.connect
\* connect without its guard: every call opens a connection.
ConnectNeeded_Always == TRUE

\* connect's guard (line 69): it acts only when no reader is stored.
ConnectNeeded == reader = NoStream

\* A handler that catches every failure of the first attempt.
Fallback_AnyFailure(o) == o # "ok" /\ mapped

\* The handler of line 72 retries only a refused attempt, and only against an
\* embedded IPv4 address (line 74).
Fallback(o) == o = "refused" /\ mapped

\* connect without lines 80-81: a set stop signal stays set.
StopAfterConnect_NoClear == IF stop = "None" THEN "unset" ELSE stop

\* Lines 78-81: the stop signal after a successful open.
StopAfterConnect ==
    IF stop = "None" THEN "unset"
    ELSE IF stop = "set" THEN "unset"
    ELSE stop

\* Line 71, the call: open_connection(str(self.address), self.port).
OpenCall(t, m) ==
    /\ opens < MaxOpens
    /\ opens' = opens + 1
    /\ Suspend(t, m, "connect71")
    /\ UNCHANGED <<reader, writer, entries, stop, waiters, mapped, address, port, live, closes>>
    /\ UNCHANGED <<depth, term>>

\* An open_connection of task t returned a stream: the assignment of line 71
\* or 75, lines 78-81, and then the rest of the method that called connect:
\* connect and __aenter__ return, send_message (lines 104-105) writes and
\* suspends in drain.
Established(t) ==
    /\ reader' = FreshStream
    /\ writer' = FreshStream
    /\ live' = live \cup {FreshStream}
    /\ stop' = StopAfterConnect
    /\ term' = IF term = "fresh" THEN "stale" ELSE term
    /\ IF op[t] = "send"
       THEN Suspend(t, "send", "drain105")
       ELSE Return(t, "ok")
    /\ depth' = IF op[t] = "aenter" THEN [depth EXCEPT ![t] = @ + 1] ELSE depth
    /\ UNCHANGED <<entries, waiters, mapped, address, port, opens, closes>>

\* An exception leaves the coroutine of task t and every frame above it.
Raise(t) ==
    /\ Return(t, "raised")
    /\ UNCHANGED <<nodeVars, depth, term>>

\* Node.connect, called by task t (lines 68-71).
Connect(t) ==
    /\ pc[t] = "idle"
    /\ IF ConnectNeeded
       THEN OpenCall(t, "connect")
       ELSE /\ Return(t, "ok")
            /\ UNCHANGED <<nodeVars, depth, term>>

\* The await of line 71 ends with outcome o (lines 71-81).
Resume71(t, o) ==
    /\ pc[t] = "connect71"
    /\ IF o = "ok" THEN Established(t)
       ELSE IF Fallback(o)
       THEN /\ opens' = opens + 1
            /\ pc' = [pc EXCEPT ![t] = "connect75"]
            /\ UNCHANGED <<reader, writer, entries, stop, waiters, mapped, address, port, live, closes>>
            /\ ret' = "none"
            /\ UNCHANGED <<op, depth, term>>
       ELSE Raise(t)

\* The await of line 75 ends with outcome o: any failure leaves the handler.
Resume75(t, o) ==
    /\ pc[t] = "connect75"
    /\ IF o = "ok" THEN Established(t) ELSE Raise(t)

\* -------------------------------------------------------------- Node.close
\* close's guard (line 84).
CloseNeeded == writer # NoStream

\* Lines 85-86: writer.close(), then the await of wait_closed().
CloseCall(t, m) ==
    /\ closes < MaxCloses
    /\ closes' = closes + 1
    /\ live' = live \ {writer}
    /\ Suspend(t, m, "close86")
    /\ UNCHANGED <<reader, writer, entries, stop, waiters, mapped, address, port, opens>>
    /\ UNCHANGED <<term>>

\* Node.close, called by task t (lines 83-86).
Close(t) ==
    /\ pc[t] = "idle"
    /\ IF CloseNeeded
       THEN CloseCall(t, "close") /\ UNCHANGED depth
       ELSE /\ Return(t, "ok")
            /\ UNCHANGED <<nodeVars, depth, term>>

\* close without lines 89-90.
StopAfterClose_Forgotten == stop

\* Lines 89-90: the stop signal when close ends; set() resolves every waiter.
StopAfterClose == IF stop # "set" THEN "set" ELSE stop

\* wait_closed() returned (lines 87-90).  self._stop.is_set() on a Node whose
\* _stop is None raises AttributeError after the handles were cleared.
CloseResume(t) ==
    /\ pc[t] = "close86"
    /\ reader' = NoStream
    /\ writer' = NoStream
    /\ IF stop = "None"
       THEN Return(t, "raised") /\ UNCHANGED <<stop, waiters>>
       ELSE /\ Return(t, "ok")
            /\ stop' = StopAfterClose
            /\ waiters' = IF StopAfterClose = "set" THEN {} ELSE waiters
    /\ UNCHANGED <<entries, mapped, address, port, live, opens, closes, depth, term>>

\* --------------------------------------------- Node.__aenter__ / __aexit__
\* Line 94, evaluated after the increment of line 93.
EnterConnects(n) == n = 1 /\ reader = NoStream

\* An exit that closes whatever the entry counter says.
ExitCloses_EveryExit(n) == reader # NoStream

\* Line 99, evaluated after the decrement of line 98.
ExitCloses(n) == n = 0 /\ reader # NoStream

\* Node.__aenter__, called by task t (lines 92-95, into connect's line 71).
Enter(t) ==
    /\ pc[t] = "idle"
    /\ entries' = entries + 1
    /\ IF EnterConnects(entries + 1) /\ ConnectNeeded
       THEN /\ opens < MaxOpens
            /\ opens' = opens + 1
            /\ Suspend(t, "aenter", "connect71")
            /\ UNCHANGED depth
       ELSE /\ Return(t, "ok")
            /\ depth' = [depth EXCEPT ![t] = @ + 1]
            /\ UNCHANGED opens
    /\ UNCHANGED <<reader, writer, stop, waiters, mapped, address, port, live, closes>>
    /\ UNCHANGED term

\* Node.__aexit__, called by a task that is inside a scope (lines 97-100, into
\* close's lines 84-86).
Exit(t) ==
    /\ pc[t] = "idle"
    /\ depth[t] > 0
    /\ depth' = [depth EXCEPT ![t] = @ - 1]
    /\ entries' = entries - 1
    /\ IF ExitCloses(entries - 1) /\ CloseNeeded
       THEN /\ closes < MaxCloses
            /\ closes' = closes + 1
            /\ live' = live \ {writer}
            /\ Suspend(t, "aexit", "close86")
       ELSE /\ Return(t, "ok")
            /\ UNCHANGED <<live, closes>>
    /\ UNCHANGED <<reader, writer, stop, waiters, mapped, address, port, opens>>
    /\ UNCHANGED term

\* ------------------------------------------------------- Node.send_message
\* The writer property's guard (line 64).
WriterNeeded == writer = NoStream

\* Node.send_message, called by task t (lines 102-105 and 62-66).
Send(t) ==
    /\ pc[t] = "idle"
    /\ IF WriterNeeded
       THEN IF ConnectNeeded
            THEN OpenCall(t, "send")
            ELSE Raise(t)   \* connect did nothing: None.write(...)
       ELSE /\ Suspend(t, "send", "drain105")
            /\ UNCHANGED <<nodeVars, depth, term>>

\* drain() returned, or raised a transport error (line 105).
DrainResume(t, o) ==
    /\ pc[t] = "drain105"
    /\ Return(t, IF o = "ok" THEN "ok" ELSE "raised")
    /\ UNCHANGED <<nodeVars, depth, term>>

\* ------------------------------------------------ Node.terminate / join
\* Line 49.
HasStop == stop # "None"

\* Node.terminate, called by task t (lines 48-50); Event.set resolves the
\* future of every waiter.
Terminate(t) ==
    /\ pc[t] = "idle"
    /\ IF HasStop
       THEN stop' = "set" /\ waiters' = {}
       ELSE UNCHANGED <<stop, waiters>>
    /\ term' = "fresh"
    /\ Return(t, "ok")
    /\ UNCHANGED <<reader, writer, entries, mapped, address, port, live, opens, closes>>
    /\ UNCHANGED depth

\* An edge-triggered wait: join suspends on a set Event too.
JoinBlocks_Edge == stop # "None"

\* Lines 53-54 and Event.wait: join suspends only on an Event that is unset.
JoinBlocks == stop # "None" /\ stop # "set"

\* Node.join, called by task t (lines 52-54).
Join(t) ==
    /\ pc[t] = "idle"
    /\ IF JoinBlocks
       THEN /\ waiters' = waiters \cup {t}
            /\ Suspend(t, "join", "join54")
       ELSE /\ Return(t, "ok")
            /\ UNCHANGED waiters
    /\ UNCHANGED <<reader, writer, entries, stop, mapped, address, port, live, opens, closes>>
    /\ UNCHANGED <<depth, term>>

\* The future of task t's Event.wait was resolved: join returns.
JoinResume(t) ==
    /\ pc[t] = "join54"
    /\ t \notin waiters
    /\ Return(t, "ok")
    /\ UNCHANGED <<nodeVars, depth, term>>


\* ------------------------------------------------------ the chain registry
\* A class attribute is missing ("absent": hasattr is false), None, or a value.
\* Blockchain itself only annotates name and node_type (lines 129-130).
ChainNames == {"", "btc", "eth"}
NodeTypes == {"BitcoinNode", "EthereumNode"}
NameAttrs == ChainNames \cup {"absent", "None"}
TypeAttrs == NodeTypes \cup {"absent", "None"}

\* Attribute lookup on a new class: its own body, then its base.  Base 0 is
\* Blockchain; base i > 0 is the i-th subclass defined.
Attr(own, base, field) ==
    IF own # "absent" THEN own
    ELSE IF base = 0 THEN "absent"
    ELSE classes[base][field]

\* The checks of lines 133 and 135.
Missing(a) == a = "absent" \/ a = "None"

\* An insertion that keeps the item already stored under k.
DictSet_KeepOld(d, k, v) == d \cup {<<k, v>>}

\* d[k] = v on a dict held as its set of items.
DictSet(d, k, v) == {e \in d : e[1] # k} \cup {<<k, v>>}

\* Line 124.
RegInit ==
    /\ BLOCKCHAINS = {}
    /\ classes = <<>>

\* A class statement with base `base` whose body sets name and node_type as
\* given: Blockchain.__init_subclass__ (lines 132-137).  A TypeError leaves
\* the class undefined.
Define(base, ownName, ownType) ==
    LET name == Attr(ownName, base, "name")
        node_type == Attr(ownType, base, "node_type")
        cls == Len(classes) + 1
    IN  /\ Len(classes) < MaxClasses
        /\ IF Missing(name) \/ Missing(node_type)
           THEN UNCHANGED <<BLOCKCHAINS, classes>>
           ELSE /\ classes' = Append(classes, [name |-> name, node_type |-> node_type])
                /\ BLOCKCHAINS' = DictSet(BLOCKCHAINS, name, cls)

\* ------------------------------------------------- blockscraper/types.py
\* The model's byte holds ByteBits bits, where struct's holds 8 (line 47):
\* with 8, the 64-bit kinds leave the range of TLC's integers.  The
\* widths in bytes, the two's complement and the byte orders are the code's.
ByteBits == 2

\* Constructor arguments are drawn within Near of each end of a kind's range
\* and of zero, on both sides of each end.
Near == 5

\* unpack is handed buffers of every length up to MaxBuffer bytes.
MaxBuffer == 9

Bytes == 0..(2^ByteBits - 1)

\* The parts of call.
plat == call.plat       \* the build struct runs on: its byte order, its C long
order == call.order     \* the byte_order argument: a value of ByteOrder
kind == call.kind       \* the SizedInteger subclass in use
val == call.val         \* the argument of its constructor
schema == call.schema   \* the Struct subclass in use: its fields' kinds
args == call.args       \* the positional arguments of its constructor
kwargs == call.kwargs   \* the keyword arguments of its constructor, in order

\* The parts of outcome, each the [err, v] of a call.
inst == outcome.inst    \* the constructor's
data == outcome.data    \* pack's
fed == outcome.fed      \* the buffer handed to unpack
back == outcome.back    \* unpack's

\* ByteOrder (lines 16-20), by value.
NATIVE == "@"
LITTLE == "<"
BIG == ">"
NETWORK == "!"
ByteOrders == {NATIVE, LITTLE, BIG, NETWORK}

\* What "@" means depends on the build: the machine's byte order, and the
\* size of a C long (4 bytes on ILP32 and LLP64 builds, 8 on LP64 ones).
Platforms == [little : BOOLEAN, long : {4, 8}]

\* The FORMAT of each subclass of SizedInteger (lines 74-111).
FORMAT ==
    [Char |-> "b", UnsignedChar |-> "B", Short |-> "h", UnsignedShort |-> "H",
     Int |-> "i", UnsignedInt |-> "I", Long |-> "l", UnsignedLong |-> "L",
     LongLong |-> "q", UnsignedLongLong |-> "Q"]

SizedIntegers == DOMAIN FORMAT

\* str.islower on a format token (line 48); struct reads the same case as
\* the signedness of the C type.
islower(f) == f \in {"b", "h", "i", "l", "q"}

\* struct's standard size of a token, used under "<", ">" and "!".
StandardSize(f) ==
    CASE f \in {"b", "B"} -> 1
      [] f \in {"h", "H"} -> 2
      [] f \in {"i", "I", "l", "L"} -> 4
      [] f \in {"q", "Q"} -> 8

\* struct.calcsize(o + f) for one token: under "@" the size is the C type's.
calcsize(o, f) ==
    IF o = NATIVE /\ f \in {"l", "L"} THEN plat.long ELSE StandardSize(f)

\* struct writes the least significant byte first under "<", and under "@" on
\* a little-endian machine.
LittleEndian(o) == o = LITTLE \/ (o = NATIVE /\ plat.little)

\* The class attributes SizedIntegerMeta.__init__ sets (lines 46-50).
BYTES(k) == calcsize(NETWORK, FORMAT[k])
BITS(k) == BYTES(k) * ByteBits
SIGNED(k) == islower(FORMAT[k])

\* A maximum that forgets the sign bit.
MAX_VALUE_Unsigned(k) == 2^BITS(k) - 1

MAX_VALUE(k) == 2^(BITS(k) - (IF SIGNED(k) THEN 1 ELSE 0)) - 1
MIN_VALUE(k) == IF SIGNED(k) THEN -(2^(BITS(k) - 1)) ELSE 0

\* A call's outcome: the value it returns, or the exception it raises.
Unset == [err |-> "unset", v |-> 0]
Returns(x) == [err |-> "none", v |-> x]
Raises(e) == [err |-> e, v |-> 0]

\* SizedInteger.__new__ (lines 58-62).
New(k, value) ==
    IF ~(MIN_VALUE(k) <= value /\ value <= MAX_VALUE(k))
    THEN Raises("ValueError")
    ELSE Returns(value)

Reverse(b) == [i \in 1..Len(b) |-> b[Len(b) + 1 - i]]

\* The n bytes of the natural number u, most significant first.
BigEndian(u, n) ==
    [i \in 1..n |-> (u \div 2^((n - i) * ByteBits)) % 2^ByteBits]

\* The natural number whose bytes, most significant first, are b.
RECURSIVE FromBigEndian(_)
FromBigEndian(b) ==
    IF b = <<>> THEN 0
    ELSE FromBigEndian(SubSeq(b, 1, Len(b) - 1)) * 2^ByteBits + b[Len(b)]

\* A pack that writes every order most significant byte first.
struct_pack_BigOnly(o, f, x) ==
    LET n == calcsize(o, f)
    IN  Returns(BigEndian(IF x < 0 THEN x + 2^(n * ByteBits) ELSE x, n))

\* struct.pack(o + f, x) for one token: x in two's complement on
\* calcsize(o + f) bytes, in the order o asks for; struct.error when x does
\* not fit.
struct_pack(o, f, x) ==
    LET n == calcsize(o, f)
        bits == n * ByteBits
        lo == IF islower(f) THEN -(2^(bits - 1)) ELSE 0
        hi == IF islower(f) THEN 2^(bits - 1) - 1 ELSE 2^bits - 1
        b == BigEndian(IF x < 0 THEN x + 2^bits ELSE x, n)
    IN  IF x < lo \/ x > hi THEN Raises("struct.error")
        ELSE Returns(IF LittleEndian(o) THEN Reverse(b) ELSE b)

\* The integer that n = Len(b) bytes b hold under o + f.
Decode(o, f, b) ==
    LET u == FromBigEndian(IF LittleEndian(o) THEN Reverse(b) ELSE b)
        bits == Len(b) * ByteBits
    IN  IF islower(f) /\ u >= 2^(bits - 1) THEN u - 2^bits ELSE u

\* struct.unpack(o + f, b)[0] for one token: struct.error unless b has
\* exactly calcsize(o + f) bytes.
struct_unpack(o, f, b) ==
    IF Len(b) # calcsize(o, f) THEN Raises("struct.error")
    ELSE Returns(Decode(o, f, b))

\* SizedInteger.pack (lines 64-65).
pack(k, x, o) == struct_pack(o, FORMAT[k], x)

\* SizedInteger.unpack (lines 67-69).
unpack(k, b, o) ==
    LET r == struct_unpack(o, FORMAT[k], b)
    IN  IF r.err # "none" THEN r ELSE New(k, r.v)

\* A number whose n bytes differ from their neighbours: 1, 2, 3, ... from the
\* most significant one.
RECURSIVE Pattern(_)
Pattern(n) ==
    IF n = 0 THEN 0
    ELSE Pattern(n - 1) * 2^ByteBits + ((n - 1) % (2^ByteBits - 1)) + 1

\* The constructor arguments tried for kind k: around both ends of its range,
\* around zero, and some whose bytes all differ.
Values(k) ==
    LET lo == MIN_VALUE(k)
        hi == MAX_VALUE(k)
        pt == Pattern(BYTES(k))
    IN  ((lo - 1)..(lo + Near)) \cup ((0 - Near)..Near) \cup ((hi - Near)..(hi + 1))
            \cup {pt, hi - pt, lo + pt}

\* The first n bytes of b, zero bytes added when b is shorter.
Resize(b, n) == [i \in 1..n |-> IF i <= Len(b) THEN b[i] ELSE 0]

\* No codec call is under way.
CodecIdle ==
    /\ call = "none"
    /\ outcome = "none"

\* Nothing has been called yet.
Pending == [inst |-> Unset, data |-> Unset, fed |-> <<>>, back |-> Unset]

\* kind(val)
IntNew ==
    /\ inst.err = "unset"
    /\ outcome' = [outcome EXCEPT !.inst = New(kind, val)]
    /\ UNCHANGED call

\* inst.pack(order)
IntPack ==
    /\ inst.err = "none"
    /\ data.err = "unset"
    /\ outcome' = [outcome EXCEPT !.data = pack(kind, inst.v, order)]
    /\ UNCHANGED call

\* kind.unpack(b, order), where b is the packed bytes cut or extended to n
\* bytes.
IntUnpack(n) ==
    /\ data.err = "none"
    /\ back.err = "unset"
    /\ outcome' = [outcome EXCEPT !.fed = Resize(data.v, n),
                                  !.back = unpack(kind, Resize(data.v, n), order)]
    /\ UNCHANGED call


\* ------------------------------------------------------------------ Struct
\* A Struct subclass declares at most MaxFields fields; its constructor is
\* called with at most MaxArgs positional and MaxKwargs keyword arguments.
MaxFields == 2
MaxArgs == 2
MaxKwargs == 2

\* The names of the fields a subclass annotates, in the order of the class
\* body, and a name that no subclass annotates.
FieldNames == <<"a", "b", "c", "d">>
Undeclared == "z"

\* The kinds the fields are annotated with: one of each width.
FieldTypes == {"UnsignedChar", "Short", "Long", "UnsignedLongLong"}

\* FIELDS, as StructMeta.__init__ (lines 128-140) builds it from the
\* annotations: the (name, type) items in declared order.
Schemas ==
    UNION {[1..n -> FieldTypes] : n \in 0..MaxFields}

FIELDS(sch) == [i \in 1..Len(sch) |-> [name |-> FieldNames[i], type |-> sch[i]]]

\* FIELDS.keys(), and `name in FIELDS`.
Declared(sch) == {FieldNames[i] : i \in 1..Len(sch)}

\* FIELDS[name], for a declared name.
TypeOf(sch, name) == sch[CHOOSE i \in 1..Len(sch) : FieldNames[i] = name]

\* The keys of the kwargs dict.
Named(kw) == {kw[i][1] : i \in 1..Len(kw)}

\* Line 145: the declared names, in order, that are not keys of kwargs.
unsatisfied_fields(sch, kw) ==
    LET Unnamed(f) == f.name \notin Named(kw)
        rest == SelectSeq(FIELDS(sch), Unnamed)
    IN  [i \in 1..Len(rest) |-> rest[i].name]

\* A test that lets too few positional arguments through.
CountError_TooManyOnly(nargs, nunsat) == nargs > nunsat

\* The tests of lines 146 and 148.
CountError(nargs, nunsat) == nargs > nunsat \/ nargs < nunsat

\* zip(unsatisfied_fields, args): as long as the shorter of the two.
zip(names, values) ==
    LET n == IF Len(names) < Len(values) THEN Len(names) ELSE Len(values)
    IN  [i \in 1..n |-> <<names[i], values[i]>>]

\* setattr(self, name, value) on the attributes set so far.
setattr(attrs, name, value) ==
    [n \in DOMAIN attrs \cup {name} |-> IF n = name THEN value ELSE attrs[n]]

\* The loop of lines 150-151 over the (name, value) pairs still to assign:
\* FIELDS[name] raises KeyError for an undeclared name, the field's
\* constructor raises ValueError for a value outside its range.
RECURSIVE Assign(_, _, _)
Assign(sch, pairs, attrs) ==
    IF pairs = <<>> THEN Returns(attrs)
    ELSE LET name == pairs[1][1]
             value == pairs[1][2]
         IN  IF name \notin Declared(sch) THEN Raises("KeyError")
             ELSE IF New(TypeOf(sch, name), value).err # "none" THEN Raises("ValueError")
             ELSE Assign(sch, Tail(pairs),
                         setattr(attrs, name, New(TypeOf(sch, name), value).v))

\* Struct.__init__ (lines 144-152): the instance's attributes, or the
\* exception.
Struct_init(sch, a, kw) ==
    LET unsat == unsatisfied_fields(sch, kw)
    IN  IF CountError(Len(a), Len(unsat)) THEN Raises("ValueError")
        ELSE Assign(sch, kw \o zip(unsat, a), <<>>)

\* b"".join of the fields' packed bytes, from field i on; a field's exception
\* propagates.
RECURSIVE Concat(_, _, _, _)
Concat(sch, attrs, o, i) ==
    IF i > Len(sch) THEN Returns(<<>>)
    ELSE LET head == pack(sch[i], attrs[FieldNames[i]], o)
             rest == Concat(sch, attrs, o, i + 1)
         IN  IF head.err # "none" THEN head
             ELSE IF rest.err # "none" THEN rest
             ELSE Returns(head.v \o rest.v)

\* Struct.pack (lines 154-156).
Struct_pack(sch, attrs, o) == Concat(sch, attrs, o, 1)

\* Under "@" struct aligns each item as C does, to a multiple of its size;
\* under the other orders items follow each other directly.
Align(off, o, f) ==
    IF o = NATIVE
    THEN ((off + calcsize(o, f) - 1) \div calcsize(o, f)) * calcsize(o, f)
    ELSE off

\* Where item i of the format o + tokens starts in the buffer.
RECURSIVE Offset(_, _, _)
Offset(sch, o, i) ==
    IF i = 1 THEN 0
    ELSE Align(Offset(sch, o, i - 1) + calcsize(o, FORMAT[sch[i - 1]]),
               o, FORMAT[sch[i]])

\* struct.calcsize of the joined format: the end of its last item.
StructSize(sch, o) ==
    IF sch = <<>> THEN 0
    ELSE Offset(sch, o, Len(sch)) + calcsize(o, FORMAT[sch[Len(sch)]])

\* struct.unpack(o + tokens, b) (lines 160-161): one integer per field.
struct_unpack_all(sch, o, b) ==
    IF Len(b) # StructSize(sch, o) THEN Raises("struct.error")
    ELSE Returns([i \in 1..Len(sch) |->
             Decode(o, FORMAT[sch[i]],
                    SubSeq(b, Offset(sch, o, i) + 1,
                           Offset(sch, o, i) + calcsize(o, FORMAT[sch[i]])))])

\* Struct.unpack (lines 158-162): the integers become the positional
\* arguments of the constructor.
Struct_unpack(sch, b, o) ==
    LET r == struct_unpack_all(sch, o, b)
    IN  IF r.err # "none" THEN r ELSE Struct_init(sch, r.v, <<>>)

\* Struct.__eq__ (lines 188-191) on two instances of the class with fields
\* sch: as many fields, and equal values field by field.
StructEq(sch, x, y) ==
    \A i \in 1..Len(sch) : x[FieldNames[i]] = y[FieldNames[i]]

\* The values a field of kind k is given: the ends of its range and two
\* values between them.
FieldValues(k) ==
    {MIN_VALUE(k), MAX_VALUE(k), Pattern(BYTES(k)), IF SIGNED(k) THEN -1 ELSE 1}

\* One such value for each field of sch, in declared order.
ValidArgs(sch) ==
    {a \in [1..Len(sch) -> UNION {FieldValues(k) : k \in FieldTypes}] :
        \A i \in 1..Len(sch) : a[i] \in FieldValues(sch[i])}

\* The values the constructor's arguments are drawn from: one that every
\* kind accepts and one that the unsigned kinds refuse.
ArgValues == {-1, 2}

\* The keyword arguments of a call: pairwise different names, each declared
\* by some subclass or by none.
KwargsOf(sch) ==
    LET names == Declared(sch) \cup {Undeclared}
        Lists == UNION {[1..n -> names \X ArgValues] : n \in 0..MaxKwargs}
    IN  {kw \in Lists : \A i, j \in 1..Len(kw) : kw[i][1] = kw[j][1] => i = j}

\* cls(*args, **kwargs)
StructNew ==
    /\ inst.err = "unset"
    /\ outcome' = [outcome EXCEPT !.inst = Struct_init(schema, args, kwargs)]
    /\ UNCHANGED call

\* inst.pack(order)
StructPack ==
    /\ inst.err = "none"
    /\ data.err = "unset"
    /\ outcome' = [outcome EXCEPT !.data = Struct_pack(schema, inst.v, order)]
    /\ UNCHANGED call

\* cls.unpack(data, order) on the bytes pack returned
StructUnpack ==
    /\ data.err = "none"
    /\ back.err = "unset"
    /\ outcome' = [outcome EXCEPT !.fed = data.v,
                                  !.back = Struct_unpack(schema, data.v, order)]
    /\ UNCHANGED call

\* ---------------------------------------------------------- specifications
Init == NodeInit /\ RegInit /\ CodecIdle

\* Tasks on one event loop call the Node's methods and resume at its awaits
\* in any order.
Next ==
    \/ \E t \in Tasks : Connect(t) /\ UNCHANGED <<explicit, exits, regVars, codecVars>>
    \/ \E t \in Tasks : Close(t) /\ UNCHANGED <<explicit, exits, regVars, codecVars>>
    \/ \E t \in Tasks : /\ entries < MaxEntries
                        /\ depth[t] < MaxDepth
                        /\ Enter(t)
                        /\ UNCHANGED <<explicit, exits, regVars, codecVars>>
    \/ \E t \in Tasks : Exit(t) /\ UNCHANGED <<explicit, exits, regVars, codecVars>>
    \/ \E t \in Tasks : Send(t) /\ UNCHANGED <<explicit, exits, regVars, codecVars>>
    \/ \E t \in Tasks : Terminate(t) /\ UNCHANGED <<explicit, exits, regVars, codecVars>>
    \/ \E t \in Tasks : Join(t) /\ UNCHANGED <<explicit, exits, regVars, codecVars>>
    \/ \E t \in Tasks, o \in Outcomes : Resume71(t, o) /\ UNCHANGED <<explicit, exits, regVars, codecVars>>
    \/ \E t \in Tasks, o \in Outcomes : Resume75(t, o) /\ UNCHANGED <<explicit, exits, regVars, codecVars>>
    \/ \E t \in Tasks : CloseResume(t) /\ UNCHANGED <<explicit, exits, regVars, codecVars>>
    \/ \E t \in Tasks, o \in {"ok", "error"} : DrainResume(t, o) /\ UNCHANGED <<explicit, exits, regVars, codecVars>>
    \/ \E t \in Tasks : JoinResume(t) /\ UNCHANGED <<explicit, exits, regVars, codecVars>>

Spec == Init /\ [][Next]_vars

\* The history of explicit calls, kept where one task makes every call: a
\* step in which a call of method m returns sets it (connect) or clears it
\* (close).
Issued(m) ==
    explicit' =
        IF ret' # "ok" THEN explicit
        ELSE IF m = "connect" THEN TRUE
        ELSE IF m = "close" THEN FALSE
        ELSE explicit

\* One task calls the Node's methods one after the other, each call completed
\* before the next; a second task only waits in join.
SeqNext ==
    \/ Connect(1) /\ Issued("connect") /\ UNCHANGED <<exits, regVars, codecVars>>
    \/ Close(1) /\ Issued("close") /\ UNCHANGED <<exits, regVars, codecVars>>
    \/ /\ entries < MaxEntries
       /\ depth[1] < MaxDepth
       /\ Enter(1)
       /\ UNCHANGED <<explicit, exits, regVars, codecVars>>
    \/ Exit(1) /\ UNCHANGED <<explicit, exits, regVars, codecVars>>
    \/ Send(1) /\ UNCHANGED <<explicit, exits, regVars, codecVars>>
    \/ Terminate(1) /\ UNCHANGED <<explicit, exits, regVars, codecVars>>
    \/ \E o \in Outcomes : Resume71(1, o) /\ Issued(op[1]) /\ UNCHANGED <<exits, regVars, codecVars>>
    \/ \E o \in Outcomes : Resume75(1, o) /\ Issued(op[1]) /\ UNCHANGED <<exits, regVars, codecVars>>
    \/ CloseResume(1) /\ Issued(op[1]) /\ UNCHANGED <<exits, regVars, codecVars>>
    \/ \E o \in {"ok", "error"} : DrainResume(1, o) /\ UNCHANGED <<explicit, exits, regVars, codecVars>>
    \/ Join(2) /\ UNCHANGED <<explicit, exits, regVars, codecVars>>
    \/ JoinResume(2) /\ UNCHANGED <<explicit, exits, regVars, codecVars>>

SpecSeq == Init /\ [][SeqNext]_vars

\* One task enters the scope of an idle Node N times, 1 <= N <= MaxNest, and
\* then exits it N times; every open attempt succeeds.
NestNext ==
    \/ /\ exits = 0
       /\ depth[1] < MaxNest
       /\ Enter(1)
       /\ UNCHANGED <<explicit, exits, regVars, codecVars>>
    \/ Exit(1) /\ exits' = exits + 1 /\ UNCHANGED <<explicit, regVars, codecVars>>
    \/ Resume71(1, "ok") /\ UNCHANGED <<explicit, exits, regVars, codecVars>>
    \/ CloseResume(1) /\ UNCHANGED <<explicit, exits, regVars, codecVars>>

SpecNest == Init /\ [][NestNext]_vars

\* Tasks enter and exit the scope of one Node in any order, each exits only
\* scopes it has entered; every open attempt succeeds.
ScopeNext ==
    \/ \E t \in Tasks : /\ entries < MaxEntries + 1
                        /\ depth[t] < MaxDepth + 1
                        /\ Enter(t)
                        /\ UNCHANGED <<explicit, exits, regVars, codecVars>>
    \/ \E t \in Tasks : Exit(t) /\ UNCHANGED <<explicit, exits, regVars, codecVars>>
    \/ \E t \in Tasks : Resume71(t, "ok") /\ UNCHANGED <<explicit, exits, regVars, codecVars>>
    \/ \E t \in Tasks : CloseResume(t) /\ UNCHANGED <<explicit, exits, regVars, codecVars>>

SpecScope == Init /\ [][ScopeNext]_vars

\* Blockchain subclasses are defined one after the other.
RegNext ==
    \E base \in 0..Len(classes), ownName \in NameAttrs, ownType \in TypeAttrs :
        /\ Define(base, ownName, ownType)
        /\ UNCHANGED <<nodeVars, taskVars, histVars, codecVars>>

SpecRegistry == Init /\ [][RegNext]_vars

\* No Node and no registry is in use while the codec is exercised.
Standby == NodeInit /\ ~mapped /\ RegInit

\* One sized integer of any kind is constructed from any argument, packed
\* under any byte order on any build, and a buffer of any length is unpacked.
IntInit ==
    /\ Standby
    /\ \E p \in Platforms, o \in ByteOrders, k \in SizedIntegers :
           \E v \in Values(k) :
               call = [plat |-> p, order |-> o, kind |-> k, val |-> v,
                       schema |-> <<>>, args |-> <<>>, kwargs |-> <<>>]
    /\ outcome = Pending

IntNext ==
    \/ IntNew /\ UNCHANGED <<nodeVars, taskVars, histVars, regVars>>
    \/ IntPack /\ UNCHANGED <<nodeVars, taskVars, histVars, regVars>>
    \/ \E n \in 0..MaxBuffer :
           IntUnpack(n) /\ UNCHANGED <<nodeVars, taskVars, histVars, regVars>>

SpecInt == IntInit /\ [][IntNext]_vars

\* A Struct subclass is instantiated from any positional and keyword
\* arguments.
StructNewInit ==
    /\ Standby
    /\ \E sch \in Schemas, a \in UNION {[1..n -> ArgValues] : n \in 0..MaxArgs} :
           \E kw \in KwargsOf(sch) :
               call = [plat |-> [little |-> TRUE, long |-> 8], order |-> NETWORK,
                       kind |-> "Char", val |-> 0,
                       schema |-> sch, args |-> a, kwargs |-> kw]
    /\ outcome = Pending

StructNewNext ==
    StructNew /\ UNCHANGED <<nodeVars, taskVars, histVars, regVars>>

SpecStructNew == StructNewInit /\ [][StructNewNext]_vars

\* A Struct subclass is instantiated with a value for each field that the
\* field's kind accepts, packed under any byte order on any build, and
\* unpacked from the bytes.
StructInitial ==
    /\ Standby
    /\ \E p \in Platforms, o \in ByteOrders, sch \in Schemas :
           \E a \in ValidArgs(sch) :
               call = [plat |-> p, order |-> o, kind |-> "Char", val |-> 0,
                       schema |-> sch, args |-> a, kwargs |-> <<>>]
    /\ outcome = Pending

StructNext ==
    \/ StructNew /\ UNCHANGED <<nodeVars, taskVars, histVars, regVars>>
    \/ StructPack /\ UNCHANGED <<nodeVars, taskVars, histVars, regVars>>
    \/ StructUnpack /\ UNCHANGED <<nodeVars, taskVars, histVars, regVars>>

SpecStruct == StructInitial /\ [][StructNext]_vars


\* -------------------------------------------------------------- properties

\* C1 (SpecNest): one task enters the scope of an idle Node N times and then
\* exits it N times.  open_connection is called once, at the first entry;
\* StreamWriter.close is called once, at the last exit; the connection is open
\* after every entry and after each of the first N-1 exits, and closed (the
\* handles cleared) after the N-th exit.
C1_NestedScope ==
    /\ opens = (IF entries = 0 /\ exits = 0 THEN 0 ELSE 1)
    /\ closes = (IF exits > 0 /\ depth[1] = 0 THEN 1 ELSE 0)
    /\ pc[1] = "connect71" => entries = 1 /\ depth[1] = 0 /\ exits = 0
    /\ pc[1] = "close86" => entries = 0 /\ depth[1] = 0
    /\ entries = depth[1] + (IF pc[1] = "connect71" THEN 1 ELSE 0)
    /\ (pc[1] = "idle" /\ depth[1] > 0) => Connected /\ reader = writer
    /\ (pc[1] = "idle" /\ depth[1] = 0 /\ exits > 0) =>
           ~Connected /\ reader = NoStream /\ writer = NoStream /\ live = {}

\* Three entries and three exits have completed.
C1_Witness ==
    /\ exits = 3 /\ depth[1] = 0 /\ pc[1] = "idle"
    /\ opens = 1 /\ closes = 1 /\ reader = NoStream

\* C2 (SpecSeq): after any sequence of completed calls the connection is open
\* if and only if the entry counter is positive or a connect() was issued
\* without a matching close().
C2_OpenIffHeld ==
    pc[1] = "idle" => (Connected <=> (entries > 0 \/ explicit))

\* C3 (Spec): tasks connecting concurrently leak no socket: the Node never
\* has two streams open at once (and so never overwrites the handle of an
\* open stream with another stream).
C3_NoLeak == Cardinality(live) <= 1

\* C4 (SpecScope): a task that is inside a scope (its entry has returned, its
\* matching exit has not begun) finds the connection open.
C4_ScopeHoldsConnection == \A t \in Tasks : depth[t] > 0 => Connected

\* C5 as stated (Spec): once terminate() has been called, no join() is
\* blocked, whatever happens afterwards.
C5_TerminateForever == term # "no" => waiters = {}

\* C5 amended (Spec): once terminate() has been called and until the next
\* connect succeeds, no join() is blocked: the joins that waited have been
\* released and a join started now returns at once.
C5_TerminateUntilConnect == term = "fresh" => waiters = {} /\ stop # "unset"

\* terminate() released a join that was waiting on a connected Node.
C5_Witness ==
    /\ term = "fresh" /\ stop = "set" /\ reader # NoStream /\ closes = 0
    /\ \E t \in Tasks : pc[t] = "join54" /\ t \notin waiters

\* C6 (Spec): when close() returns on a Node that was connected both handles
\* are cleared, the stop signal is set and no join is left blocked; close()
\* on an idle Node changes nothing of the Node and closes nothing.
C6_Close ==
    [][\A t \in Tasks :
        /\ (pc[t] = "close86" /\ op[t] = "close" /\ pc'[t] = "idle") =>
               /\ reader' = NoStream /\ writer' = NoStream
               /\ stop' = "set" /\ waiters' = {}
               /\ ret' = "ok"
        /\ (Close(t) /\ writer = NoStream) =>
               /\ UNCHANGED nodeVars
               /\ pc'[t] = "idle" /\ ret' = "ok"
      ]_vars

\* close() has returned on a connected Node and released a join that nobody
\* terminated.
C6_Witness ==
    /\ reader = NoStream /\ writer = NoStream /\ stop = "set" /\ term = "no"
    /\ closes = 1 /\ entries = 0 /\ ret = "ok"
    /\ \E t \in Tasks : pc[t] = "join54" /\ t \notin waiters
    /\ \E t \in Tasks : pc[t] = "idle"

\* C7 (Spec): connect() on a Node that holds a reader makes no open attempt
\* and leaves the handles, the entry counter and the stop signal as they are.
C7_ConnectNoOp ==
    [][\A t \in Tasks :
        (Connect(t) /\ reader # NoStream) =>
            /\ UNCHANGED <<reader, writer, entries, stop, waiters, live, opens, closes>>
            /\ pc'[t] = "idle" /\ ret' = "ok"
      ]_vars

\* A connect() has just returned on a Node that a send_message, still in
\* drain, had connected: the one open attempt so far was the send's.
C7_Witness ==
    /\ pc[1] = "idle" /\ ret = "ok"
    /\ pc[2] = "drain105"
    /\ Connected /\ stop = "unset" /\ term = "no"
    /\ opens = 1 /\ closes = 0 /\ entries = 0

\* C8 (SpecSeq): every connect that succeeds, a reconnect after close
\* included, leaves the Node connected with the stop signal unset; a join()
\* started then blocks, and is released by nothing but terminate() or the end
\* of a close().
C8_Reconnect ==
    [][/\ (reader = NoStream /\ reader' # NoStream) =>
              /\ is_running' /\ Connected' /\ stop' = "unset"
       /\ (Join(2) /\ is_running) => (2 \in waiters' /\ pc'[2] = "join54")
       /\ (pc[2] = "join54" /\ pc'[2] = "idle") => 2 \notin waiters
       /\ (2 \in waiters /\ 2 \notin waiters') =>
              /\ Terminate(1) \/ CloseResume(1)
              /\ stop' = "set"
       /\ (Terminate(1) /\ stop # "None") => waiters' = {}
       /\ (pc[1] = "close86" /\ pc'[1] = "idle") => waiters' = {}
      ]_vars

\* connect, terminate, close, connect, and then a join that is blocked.
C8_Witness ==
    /\ opens = 2 /\ closes = 1 /\ term = "stale" /\ explicit /\ entries = 0
    /\ is_running /\ Connected
    /\ pc[1] = "idle" /\ pc[2] = "join54" /\ 2 \in waiters

\* C9 (SpecSeq): a connect makes a second open attempt only when the first
\* was refused and the address is IPv4-mapped; every other failure of the
\* first attempt and every failure of the second is raised to the caller, and
\* a connect that raises leaves the Node idle with its stop signal unchanged.
C9_Fallback ==
    [][/\ (pc[1] = "connect71" /\ pc'[1] = "connect75") =>
              /\ mapped /\ Resume71(1, "refused")
              /\ opens' = opens + 1
       /\ pc'[1] = "connect75" => pc[1] \in {"connect71", "connect75"}
       /\ (Resume71(1, "refused") /\ ~mapped) => ret' = "raised" /\ opens' = opens
       /\ Resume71(1, "error") => ret' = "raised" /\ opens' = opens
       /\ \A o \in {"refused", "error"} :
              Resume75(1, o) => ret' = "raised" /\ opens' = opens
       /\ (pc[1] \in {"connect71", "connect75"} /\ ret' = "raised") =>
              /\ reader' = NoStream /\ writer' = NoStream
              /\ stop' = stop /\ live' = live /\ waiters' = waiters
              /\ pc'[1] = "idle"
      ]_vars

\* The fallback attempt of the only call that can have made one has just
\* failed, and the error has reached the caller of a Node that never connected.
C9_Witness ==
    /\ mapped /\ opens = MaxOpens + 1 /\ closes = 0 /\ stop = "None"
    /\ pc[1] = "idle" /\ ret = "raised"
    /\ reader = NoStream /\ writer = NoStream /\ live = {}

\* C10 (SpecRegistry): the registry holds one item per chain name, the names
\* are those of the classes defined so far, each name maps to the class
\* defined last under it, and a class is stored under its name unless a later
\* class took the name.
C10_Registry ==
    /\ \A e1, e2 \in BLOCKCHAINS : e1[1] = e2[1] => e1 = e2
    /\ {e[1] : e \in BLOCKCHAINS} = {classes[i].name : i \in 1..Len(classes)}
    /\ \A e \in BLOCKCHAINS :
           /\ e[2] \in 1..Len(classes)
           /\ classes[e[2]].name = e[1]
           /\ \A j \in 1..Len(classes) : classes[j].name = e[1] => j <= e[2]
    /\ \A i \in 1..Len(classes) :
           (\A j \in (i+1)..Len(classes) : classes[j].name # classes[i].name)
               => <<classes[i].name, i>> \in BLOCKCHAINS

\* Three classes, the third defined under the name of the first.
C10_Witness ==
    /\ Len(classes) = 3
    /\ classes[1].name = classes[3].name
    /\ classes[2].name # classes[1].name
    /\ BLOCKCHAINS = {<<classes[1].name, 3>>, <<classes[2].name, 2>>}

\* C15 (Spec): no operation of the Node changes its address or its port: they
\* are the ones it was constructed with, however far its lifecycle has gone.
\* So a Node constructed with the same address and port compares equal to it,
\* both ways round, and has the same hash, whatever the connection state.
C15_Identity ==
    /\ address = (IF mapped THEN MappedAddress ELSE PlainAddress)
    /\ port \in Ports
    /\ \A a \in {MappedAddress, PlainAddress}, p \in Ports :
           (a = address /\ p = port) =>
               /\ NodeEq(Self, NodeNew(a, p))
               /\ NodeEq(NodeNew(a, p), Self)
               /\ NodeHash(Self) = NodeHash(NodeNew(a, p))

\* The Node is connected inside a scope, after an earlier close.
C15_Witness == Connected /\ entries > 0 /\ closes > 0 /\ stop = "unset"

\* C16 (SpecSeq): one task makes every call.  The entry counter is never
\* negative, and whenever no call is in progress it equals the number of
\* scopes entered and not yet exited; so an entry whose connect failed, which
\* entered no scope, leaves the counter where it was before the entry.
C16_CounterIsScopes ==
    /\ entries >= 0
    /\ pc[1] = "idle" => entries = depth[1]

\* C17 (SpecRegistry): every item of the registry has a non-empty chain name
\* as its key and a class with a concrete node type as its value, because a
\* class statement whose name is missing or empty, or whose node type is
\* missing, is rejected.
C17_WellFormedEntries ==
    \A e \in BLOCKCHAINS :
        /\ e[1] # ""
        /\ e[1] \notin {"absent", "None"}
        /\ e[2] \in 1..Len(classes)
        /\ classes[e[2]].node_type \in NodeTypes

\* C12 (SpecInt): for every kind of sized integer, every value its
\* constructor accepts and every byte order, unpacking under that order the
\* bytes pack produced under it succeeds and returns the value packed.
C12_RoundTrip ==
    (back.err # "unset" /\ fed = data.v) =>
        /\ back.err = "none"
        /\ back.v = inst.v
        /\ inst.v = val

\* A negative Long, whose bytes are no palindrome, went through the native
\* order of a big-endian build with an 8-byte long and came back.
C12_Witness ==
    /\ kind = "Long" /\ order = NATIVE /\ plat.long = 8 /\ ~plat.little
    /\ val < -1
    /\ back.err = "none" /\ fed = data.v /\ fed # Reverse(fed)

\* C13 (SpecInt): a kind's bounds follow from its format token: with w the
\* token's width in bytes, an unsigned kind ranges over 0 .. 2^(bits of w
\* bytes) - 1 and a signed one over -2^(bits - 1) .. 2^(bits - 1) - 1.  The
\* constructor returns every argument within the bounds, both ends included,
\* unchanged, and raises its range error for every other one.
C13_Bounds ==
    LET bits == StandardSize(FORMAT[kind]) * ByteBits
        lo == IF islower(FORMAT[kind]) THEN -(2^(bits - 1)) ELSE 0
        hi == IF islower(FORMAT[kind]) THEN 2^(bits - 1) - 1 ELSE 2^bits - 1
    IN  /\ MIN_VALUE(kind) = lo
        /\ MAX_VALUE(kind) = hi
        /\ inst.err # "unset" =>
               IF lo <= val /\ val <= hi
               THEN inst.err = "none" /\ inst.v = val
               ELSE inst.err = "ValueError"

\* The constructor of a signed kind refused the successor of its maximum.
C13_Witness ==
    /\ SIGNED(kind) /\ val = MAX_VALUE(kind) + 1
    /\ inst.err = "ValueError"

\* C18 (SpecInt): under every byte order, the native one included, pack
\* returns exactly BYTES bytes, the width computed once under network order;
\* unpack raises its format error for a buffer of any other length, and for
\* no buffer of that length.
C18_ExactWidth ==
    /\ data.err = "none" => Len(data.v) = BYTES(kind)
    /\ back.err # "unset" => (back.err = "struct.error" <=> Len(fed) # BYTES(kind))

\* C14 (SpecStructNew): the constructor of a Struct raises its argument
\* error whenever the number of positional values differs from the number of
\* declared fields that no keyword names.  When it returns, the instance
\* holds exactly the declared fields: a field named by a keyword holds the
\* keyword's value, the others hold the positional values in declared order,
\* and each value lies within the range of the field's kind.
C14_Construction ==
    inst.err # "unset" =>
        LET named == {kwargs[i][1] : i \in 1..Len(kwargs)}
            unnamed == {i \in 1..Len(schema) : FieldNames[i] \notin named}
            Rank(i) == Cardinality({j \in unnamed : j <= i})
        IN  /\ Len(args) # Cardinality(unnamed) => inst.err = "ValueError"
            /\ inst.err = "none" =>
                   /\ DOMAIN inst.v = {FieldNames[i] : i \in 1..Len(schema)}
                   /\ \A i \in unnamed : inst.v[FieldNames[i]] = args[Rank(i)]
                   /\ \A j \in 1..Len(kwargs) : inst.v[kwargs[j][1]] = kwargs[j][2]
                   /\ \A i \in 1..Len(schema) :
                          /\ MIN_VALUE(schema[i]) <= inst.v[FieldNames[i]]
                          /\ inst.v[FieldNames[i]] <= MAX_VALUE(schema[i])

\* A class of two fields was instantiated with its first field named and
\* its second given by position.
C14_Witness ==
    /\ Len(schema) = 2 /\ Len(args) = 1 /\ Len(kwargs) = 1
    /\ kwargs[1][1] = FieldNames[1]
    /\ inst.err = "none"

\* C11 (SpecStruct): for every class of sized-integer fields, every value of
\* each field within its kind's range and every byte order, the native one
\* included, unpack under that order accepts the bytes pack returned under
\* it, the fields' bytes one after the other with nothing between them, and
\* returns an instance equal to the one packed.
C11_StructRoundTrip ==
    back.err # "unset" =>
        /\ back.err = "none"
        /\ StructEq(schema, back.v, inst.v)

====
